---- MODULE Spec2Model ----
(***************************************************************************)
(* Address book service (FastAPI + SQLAlchemy/SQLite): CRUD endpoints over *)
(* one table of named points and a radius search by Haversine distance.    *)
(*                                                                         *)
(* Numbers.  Python floats are modelled as decimal fixed point: a real x   *)
(* is the integer x * Scale, and every arithmetic operation rounds its     *)
(* result to the nearest representable value, as binary64 does at 2^-53.   *)
(* Angles in degrees are integers.  Distances and radii are therefore in   *)
(* units of 1/Scale km.  The coordinate values of the model (LatVals,      *)
(* LonVals) are chosen so that, on every pair of in-domain points, the     *)
(* fixed-point evaluation and the binary64 evaluation of src/utils.py      *)
(* agree on the outcome (a distance, equal within 5 km, or the             *)
(* "math domain error" of math.sqrt).                                      *)
(***************************************************************************)
EXTENDS Integers, Sequences, FiniteSets, TLC

\* ------------------------------------------------------------------ bounds
MaxStore == 2
MaxId == 3

\* ------------------------------------------------------- fixed-point floats
Scale == 10^4
Pi == 31416

\* Python's None where a string is expected; an optional number is the empty
\* sequence or a one-element sequence
None == "None"
NoValue == <<>>
Some(v) == <<v>>

Abs(x) == IF x < 0 THEN -x ELSE x

\* x / d rounded to the nearest integer, halves away from zero (d > 0)
RoundDiv(x, d) ==
    IF x < 0 THEN -((2 * (-x) + d) \div (2 * d)) ELSE (2 * x + d) \div (2 * d)

FMul(x, y) == RoundDiv(x * y, Scale)
FDiv(x, y) == RoundDiv(x * Scale, y)

\* math.radians: degrees (integer) to radians (fixed point)
Radians(deg) == RoundDiv(deg * Pi, 180)

\* sin on [0, pi/2]: x - x^3/3! + x^5/5! - ... in Horner form
SinCore(x) ==
    LET x2 == FMul(x, x)
        t1 == Scale - RoundDiv(x2, 110)
        t2 == Scale - RoundDiv(FMul(x2, t1), 72)
        t3 == Scale - RoundDiv(FMul(x2, t2), 42)
        t4 == Scale - RoundDiv(FMul(x2, t3), 20)
        t5 == Scale - RoundDiv(FMul(x2, t4), 6)
    IN  FMul(x, t5)

\* cos on [0, pi/2]: 1 - x^2/2! + x^4/4! - ... in Horner form
CosCore(x) ==
    LET x2 == FMul(x, x)
        t1 == Scale - RoundDiv(x2, 90)
        t2 == Scale - RoundDiv(FMul(x2, t1), 56)
        t3 == Scale - RoundDiv(FMul(x2, t2), 30)
        t4 == Scale - RoundDiv(FMul(x2, t3), 12)
    IN  Scale - RoundDiv(FMul(x2, t4), 2)

\* math.sin on [-2 pi, 2 pi], reduced to [0, pi/2]
RECURSIVE MathSin(_)
MathSin(x) ==
    IF x < 0 THEN -MathSin(-x)
    ELSE IF x > Pi THEN -MathSin(x - Pi)
    ELSE IF x > (Pi \div 2) + 1 THEN MathSin(Pi - x)
    ELSE SinCore(x)

\* math.cos on [-pi/2, pi/2]
MathCos(x) == CosCore(Abs(x))

RECURSIVE SqrtSearch(_, _, _)
SqrtSearch(n, lo, hi) ==
    \* largest r in lo..hi with r * r <= n
    IF lo >= hi THEN lo
    ELSE LET mid == (lo + hi + 1) \div 2
         IN  IF mid * mid <= n THEN SqrtSearch(n, mid, hi)
             ELSE SqrtSearch(n, lo, mid - 1)

\* math.sqrt of a fixed-point x >= 0, rounded to nearest
MathSqrt(x) ==
    LET n == x * Scale
        r == SqrtSearch(n, 0, 2 * Scale)
    IN  IF (r + 1) * (r + 1) - n < n - r * r THEN r + 1 ELSE r

\* atan on [0, 1/2]: t - t^3/3 + t^5/5 - t^7/7 + t^9/9 - t^11/11
AtanSmall(t) ==
    LET t2 == FMul(t, t)
        p3 == FMul(t, t2)
        p5 == FMul(p3, t2)
        p7 == FMul(p5, t2)
        p9 == FMul(p7, t2)
        p11 == FMul(p9, t2)
    IN  t - RoundDiv(p3, 3) + RoundDiv(p5, 5) - RoundDiv(p7, 7)
          + RoundDiv(p9, 9) - RoundDiv(p11, 11)

\* atan on [0, 1]: atan t = pi/4 - atan((1 - t) / (1 + t)) above 1/2
Atan01(t) ==
    IF 2 * t > Scale
    THEN RoundDiv(Pi, 4) - AtanSmall(FDiv(Scale - t, Scale + t))
    ELSE AtanSmall(t)

\* math.atan2(y, x) for y >= 0 and x >= 0
MathAtan2(y, x) ==
    IF y = 0 THEN 0
    ELSE IF x = 0 THEN RoundDiv(Pi, 2)
    ELSE IF y <= x THEN Atan01(FDiv(y, x))
    ELSE RoundDiv(Pi, 2) - Atan01(FDiv(x, y))

\* ------------------------------------------------ utils.haversine_distance
EARTH_RADIUS_KM == 6371

LatitudeError == "Latitude values must be between -90 and 90 degrees"
LongitudeError == "Longitude values must be between -180 and 180 degrees"
MathDomainError == "math domain error"

\* the guard of utils.py line 35
LatitudesInvalid(lat1, lat2) ==
    ~(-90 <= lat1 /\ lat1 <= 90) \/ ~(-90 <= lat2 /\ lat2 <= 90)

\* a range check that looks at the first longitude only
LongitudesInvalidFirstOnly(lon1, lon2) == ~(-180 <= lon1 /\ lon1 <= 180)

\* the guard of utils.py line 39
LongitudesInvalid(lon1, lon2) ==
    ~(-180 <= lon1 /\ lon1 <= 180) \/ ~(-180 <= lon2 /\ lon2 <= 180)

\* the message of the ValueError the two checks raise, or None
HaversineCheck(lat1, lon1, lat2, lon2) ==
    IF LatitudesInvalid(lat1, lat2) THEN LatitudeError
    ELSE IF LongitudesInvalid(lon1, lon2) THEN LongitudeError
    ELSE None

\* the latitudes added where the code subtracts them
HavDeltaLatSum(lat1, lat2) == Radians(lat2 + lat1)

HavDeltaLat(lat1, lat2) == Radians(lat2 - lat1)
HavDeltaLon(lon1, lon2) == Radians(lon2 - lon1)

\* a = sin^2(dlat/2) + cos(lat1) * cos(lat2) * sin^2(dlon/2)
HavA(lat1, lon1, lat2, lon2) ==
    LET s1 == MathSin(RoundDiv(HavDeltaLat(lat1, lat2), 2))
        s2 == MathSin(RoundDiv(HavDeltaLon(lon1, lon2), 2))
        cc == FMul(MathCos(Radians(lat1)), MathCos(Radians(lat2)))
    IN  FMul(s1, s1) + FMul(cc, FMul(s2, s2))

\* c = 2 * atan2(sqrt(a), sqrt(1 - a)); math.sqrt raises on a negative argument
HavC(a) == 2 * MathAtan2(MathSqrt(a), MathSqrt(Scale - a))

HavDistance(c) == EARTH_RADIUS_KM * c

\* The call as a whole: what it raises (None when it returns), the value it
\* returns, and the locals the computation has assigned when it ends.
haversine_distance(lat1, lon1, lat2, lon2) ==
    LET bad == HaversineCheck(lat1, lon1, lat2, lon2)
        a == HavA(lat1, lon1, lat2, lon2)
    IN  IF bad # None
        THEN [raised |-> bad, distance |-> NoValue, a |-> NoValue, c |-> NoValue]
        ELSE IF Scale - a < 0
        THEN [raised |-> MathDomainError, distance |-> NoValue,
              a |-> Some(a), c |-> NoValue]
        ELSE [raised |-> None, distance |-> Some(HavDistance(HavC(a))),
              a |-> Some(a), c |-> Some(HavC(a))]

\* --------------------------------------------------------------- the inputs
LatVals == {-91, -12, 0, 12, 91}
LonVals == {-181, -180, 0, 180, 181}

VARIABLES
    hav,       \* one call of haversine_distance: arguments, position, locals
    db,        \* the addresses table: rows in id order
    req,       \* the request being served
    session,   \* the request's database session: "none", "open", "closed"
    closes     \* how many times close() ran on the request's session

vars == <<hav, db, req, session, closes>>

\* ------------------------------------- haversine_distance, statement by statement
HavIdle ==
    [pc |-> "idle", lat1 |-> 0, lon1 |-> 0, lat2 |-> 0, lon2 |-> 0,
     a |-> NoValue, c |-> NoValue, distance |-> NoValue, raised |-> None]

HavCall(lat1, lon1, lat2, lon2) ==
    [pc |-> "check", lat1 |-> lat1, lon1 |-> lon1, lat2 |-> lat2, lon2 |-> lon2,
     a |-> NoValue, c |-> NoValue, distance |-> NoValue, raised |-> None]

\* utils.py lines 35-41: the two range checks
HavCheckStep ==
    /\ hav.pc = "check"
    /\ LET bad == HaversineCheck(hav.lat1, hav.lon1, hav.lat2, hav.lon2)
       IN  hav' = IF bad # None
                  THEN [hav EXCEPT !.pc = "raised", !.raised = bad]
                  ELSE [hav EXCEPT !.pc = "formula"]
    /\ UNCHANGED <<db, req, session, closes>>

\* utils.py lines 44-51: delta_lat, delta_lon, a
HavFormulaStep ==
    /\ hav.pc = "formula"
    /\ hav' = [hav EXCEPT !.pc = "arc",
                          !.a = Some(HavA(hav.lat1, hav.lon1, hav.lat2, hav.lon2))]
    /\ UNCHANGED <<db, req, session, closes>>

\* utils.py lines 53-57: c, distance, return; math.sqrt(1 - a) raises when a > 1
HavArcStep ==
    /\ hav.pc = "arc"
    /\ LET a == hav.a[1]
       IN  hav' = IF Scale - a < 0
                  THEN [hav EXCEPT !.pc = "raised", !.raised = MathDomainError]
                  ELSE [hav EXCEPT !.pc = "returned", !.c = Some(HavC(a)),
                                   !.distance = Some(HavDistance(HavC(a)))]
    /\ UNCHANGED <<db, req, session, closes>>

HavNext == HavCheckStep \/ HavFormulaStep \/ HavArcStep

\* --------------------------------------------------------- rows and payloads
HomeName == <<"H", "o", "m", "e">>
LongName == <<"W", "a", "r", "e", "h", "o", "u", "s", "e", "-", "9">>
NameVals == {HomeName, LongName}

\* the (latitude, longitude) pairs of requests and of rows already in the file
Points == {<<0, 0>>, <<0, 180>>, <<-12, -180>>, <<12, 0>>, <<-91, 0>>, <<0, 181>>}

Row(id, name, lat, lon) ==
    [id |-> id, name |-> name, latitude |-> lat, longitude |-> lon]

Payload(name, lat, lon) == [name |-> name, latitude |-> lat, longitude |-> lon]

\* request bodies: two that pass the schema, one failing on each field
Payloads ==
    {Payload(HomeName, 0, 180), Payload(HomeName, 12, 0), Payload(LongName, 0, 0),
     Payload(HomeName, -91, 0), Payload(HomeName, 0, 181)}

\* schemas.Addressbase: the Field constraints FastAPI enforces on a request body
AddressValid(address) ==
    /\ Len(address.name) <= 10
    /\ -90 <= address.latitude /\ address.latitude <= 90
    /\ -180 <= address.longitude /\ address.longitude <= 180

\* the radii of the searches, in 1/Scale km: -5 km, 0, 10 km, the distance
\* from (0, 0) to (12, 0) as haversine_distance returns it, 30000 km
HalfCircumference == EARTH_RADIUS_KM * Pi
BoundaryRadius == HavDistance(HavC(HavA(0, 0, 12, 0)))
RadiusVals == {-5 * Scale, 0, 10 * Scale, BoundaryRadius, 30000 * Scale}

Ids == 1..MaxId

Image(f) == {f[i] : i \in DOMAIN f}

RowIds(d) == {d[i].id : i \in DOMAIN d}

\* the AddressModel table as a file found at start-up may hold it: a CHECK-less
\* Float column takes any number
StoredCollections ==
    UNION {[1..n -> Points] : n \in 0..MaxStore}

RowsOf(ps) == [i \in DOMAIN ps |-> Row(i, HomeName, ps[i][1], ps[i][2])]

\* ------------------------------------------------------------------ crud.py
RetrieveDbError == "ValueError: Error retrieving address: OperationalError"
RetrieveNotFound == "ValueError: Error retrieving address: Address with ID not found"

\* INTEGER PRIMARY KEY of SQLite: one more than the largest id in the table
NewId(d) == IF Len(d) = 0 THEN 1 ELSE d[Len(d)].id + 1

create_address(d, address, fault) ==
    IF fault
    THEN [db |-> d, raised |-> "ValueError: Error creating address", row |-> <<>>]
    ELSE LET new == Row(NewId(d), address.name, address.latitude, address.longitude)
         IN  [db |-> Append(d, new), raised |-> None, row |-> <<new>>]

get_address(d, address_id, fault) ==
    IF fault
    THEN [raised |-> RetrieveDbError, at |-> 0]
    ELSE IF address_id \notin RowIds(d)
    THEN [raised |-> RetrieveNotFound, at |-> 0]
    ELSE [raised |-> None, at |-> CHOOSE i \in DOMAIN d : d[i].id = address_id]

get_all_addresses(d, fault) ==
    IF fault
    THEN [raised |-> "ValueError: Error retrieving addresses", rows |-> <<>>]
    ELSE [raised |-> None, rows |-> d]

update_address(d, address_id, address_update, fault) ==
    LET found == get_address(d, address_id, fault)
        new == Row(address_id, address_update.name, address_update.latitude,
                   address_update.longitude)
    IN  IF found.raised # None
        THEN [db |-> d, raised |-> "ValueError: Error updating address", row |-> <<>>]
        ELSE [db |-> [d EXCEPT ![found.at] = new], raised |-> None, row |-> <<new>>]

delete_address(d, address_id, fault) ==
    LET found == get_address(d, address_id, fault)
    IN  IF found.raised # None
        THEN [db |-> d, raised |-> "ValueError: Error deleting address"]
        ELSE [db |-> SelectSeq(d, LAMBDA r : r.id # address_id), raised |-> None]

\* ------------------------------------------------------- main.py: CRUD routes
Response(d, status, detail, body, raised) ==
    [db |-> d, status |-> status, detail |-> detail, body |-> body, raised |-> raised]

create_addr(d, address, fault) ==
    LET r == create_address(d, address, fault)
    IN  IF r.raised # None
        THEN Response(r.db, 500, "Failed to create address", <<>>, r.raised)
        ELSE Response(r.db, 200, "", r.row, None)

read_addrs(d, fault) ==
    LET r == get_all_addresses(d, fault)
    IN  IF r.raised # None
        THEN Response(d, 500, "Failed to retrieve addresses", <<>>, r.raised)
        ELSE Response(d, 200, "", r.rows, None)

read_addr(d, address_id, fault) ==
    LET r == get_address(d, address_id, fault)
    IN  IF r.raised # None
        THEN Response(d, 404, "Address not found", <<>>, r.raised)
        ELSE Response(d, 200, "", <<d[r.at]>>, None)

update_addr(d, address_id, address, fault) ==
    LET r == update_address(d, address_id, address, fault)
    IN  IF r.raised # None
        THEN Response(r.db, 500, "Failed to update address", <<>>, r.raised)
        ELSE Response(r.db, 200, "", r.row, None)

delete_addr(d, address_id, fault) ==
    LET r == delete_address(d, address_id, fault)
    IN  IF r.raised # None
        THEN Response(r.db, 500, "Failed to delete address", <<>>, r.raised)
        ELSE Response(r.db, 200, "Address deleted successfully", <<>>, None)

\* ------------------------------------ main.py: get_addresses_within_distance
CenterLatitudeError == "Latitude must be between -90 and 90 degrees"
CenterLongitudeError == "Longitude must be between -180 and 180 degrees"
RadiusError == "Distance must be a positive value"
QueryError == "OperationalError"

\* the checks without the one on the longitude of the center
SearchValidateNoLongitude(lat, lon, distance_km) ==
    IF ~(-90 <= lat /\ lat <= 90) THEN CenterLatitudeError
    ELSE IF distance_km <= 0 THEN RadiusError
    ELSE None

\* main.py lines 268-275: the three checks, in the order of the code
SearchValidate(lat, lon, distance_km) ==
    IF ~(-90 <= lat /\ lat <= 90) THEN CenterLatitudeError
    ELSE IF ~(-180 <= lon /\ lon <= 180) THEN CenterLongitudeError
    ELSE IF distance_km <= 0 THEN RadiusError
    ELSE None

\* a strict comparison where the code has <=
WithinRadiusStrict(dist, distance_km) == dist < distance_km

\* main.py line 289
WithinRadius(dist, distance_km) == dist <= distance_km

\* main.py lines 284-294: the loop from the i-th row on; acc holds the result
\* list, the ids haversine_distance was called for and the ids skipped
RECURSIVE ScanFrom(_, _, _, _, _, _)
RECURSIVE AfterFailure(_, _, _, _, _, _)

\* a break where the code has continue
AfterFailureBreak(all, i, acc, lat, lon, distance_km) == acc

\* main.py lines 292-294: the warning is logged and the loop continues
AfterFailure(all, i, acc, lat, lon, distance_km) ==
    ScanFrom(all, i + 1, acc, lat, lon, distance_km)

ScanFrom(all, i, acc, lat, lon, distance_km) ==
    IF i > Len(all) THEN acc
    ELSE LET addr == all[i]
             h == haversine_distance(lat, lon, addr.latitude, addr.longitude)
             called == [acc EXCEPT !.calls = Append(@, addr.id)]
         IN  IF h.raised # None
             THEN AfterFailure(all, i, [called EXCEPT !.skipped = Append(@, addr.id)],
                               lat, lon, distance_km)
             ELSE IF WithinRadius(h.distance[1], distance_km)
             THEN ScanFrom(all, i + 1, [called EXCEPT !.result = Append(@, addr)],
                           lat, lon, distance_km)
             ELSE ScanFrom(all, i + 1, called, lat, lon, distance_km)

SearchFailure(d, raised) ==
    [db |-> d, status |-> 500, detail |-> "Failed to search addresses",
     body |-> <<>>, raised |-> raised, fetched |-> FALSE, all |-> <<>>,
     calls |-> <<>>, skipped |-> <<>>]

\* a search that deletes the rows it could not compute a distance for
SearchPurgingSkipped(d, lat, lon, distance_km, fault) ==
    LET bad == SearchValidate(lat, lon, distance_km)
        scan == ScanFrom(d, 1, [result |-> <<>>, calls |-> <<>>, skipped |-> <<>>],
                         lat, lon, distance_km)
        kept == SelectSeq(d, LAMBDA r : r.id \notin Image(scan.skipped))
    IN  IF bad # None THEN SearchFailure(d, bad)
        ELSE IF fault THEN SearchFailure(d, QueryError)
        ELSE [db |-> kept, status |-> 200, detail |-> "", body |-> scan.result,
              raised |-> None, fetched |-> TRUE, all |-> d,
              calls |-> scan.calls, skipped |-> scan.skipped]

get_addresses_within_distance(d, lat, lon, distance_km, fault) ==
    LET bad == SearchValidate(lat, lon, distance_km)
        scan == ScanFrom(d, 1, [result |-> <<>>, calls |-> <<>>, skipped |-> <<>>],
                         lat, lon, distance_km)
    IN  IF bad # None THEN SearchFailure(d, bad)
        ELSE IF fault THEN SearchFailure(d, QueryError)
        ELSE [db |-> d, status |-> 200, detail |-> "", body |-> scan.result,
              raised |-> None, fetched |-> TRUE, all |-> d,
              calls |-> scan.calls, skipped |-> scan.skipped]

\* ----------------------------------------------------- main.py: get_db, requests
ReqIdle == [phase |-> "idle"]
ReqOpen == [phase |-> "open"]
Done(endpoint, args, out) ==
    [phase |-> "done", endpoint |-> endpoint, args |-> args, out |-> out]
Finished(endpoint, status) ==
    [phase |-> "finished", endpoint |-> endpoint, status |-> status]

\* close() after the yield without try/finally: skipped when the route raised
SessionAfterExitNoFinally(status) == IF status = 200 THEN "closed" ELSE "open"

\* main.py lines 64-66: finally: db.close(), whatever the route did
SessionAfterExit(status) == "closed"

Init ==
    /\ hav = HavIdle
    /\ db \in {RowsOf(ps) : ps \in StoredCollections}
    /\ req = ReqIdle
    /\ session = "none"
    /\ closes = 0

\* main.py lines 60-63: a request with Depends(get_db) arrives
GetDbEnter ==
    /\ req.phase \in {"idle", "finished"}
    /\ req' = ReqOpen
    /\ session' = "open"
    /\ closes' = 0
    /\ UNCHANGED <<hav, db>>

\* main.py lines 64-66: the generator is resumed or thrown into after the route
GetDbExit ==
    /\ req.phase = "done"
    /\ session' = SessionAfterExit(req.out.status)
    /\ closes' = IF session' = "closed" THEN closes + 1 ELSE closes
    /\ req' = Finished(req.endpoint, req.out.status)
    /\ UNCHANGED <<hav, db>>

\* a body that fails schemas.AddressCreate / AddressUpdate: 422, the route
\* function is not called
Reject422(endpoint, args) ==
    Done(endpoint, args,
         Response(db, 422, "Unprocessable Entity", <<>>, "RequestValidationError"))

CreateAddr ==
    /\ req.phase = "open"
    /\ Len(db) < MaxStore /\ NewId(db) <= MaxId
    /\ \E address \in Payloads, fault \in BOOLEAN :
          LET args == [address |-> address, fault |-> fault]
              out == create_addr(db, address, fault)
          IN  IF AddressValid(address)
              THEN req' = Done("create_addr", args, out) /\ db' = out.db
              ELSE req' = Reject422("create_addr", args) /\ db' = db
    /\ UNCHANGED <<hav, session, closes>>

ReadAddrs ==
    /\ req.phase = "open"
    /\ \E fault \in BOOLEAN :
          LET out == read_addrs(db, fault)
          IN  req' = Done("read_addrs", [fault |-> fault], out) /\ db' = out.db
    /\ UNCHANGED <<hav, session, closes>>

ReadAddr ==
    /\ req.phase = "open"
    /\ \E address_id \in Ids, fault \in BOOLEAN :
          LET out == read_addr(db, address_id, fault)
          IN  /\ req' = Done("read_addr", [id |-> address_id, fault |-> fault], out)
              /\ db' = out.db
    /\ UNCHANGED <<hav, session, closes>>

UpdateAddr ==
    /\ req.phase = "open"
    /\ \E address_id \in Ids, address \in Payloads, fault \in BOOLEAN :
          LET args == [id |-> address_id, address |-> address, fault |-> fault]
              out == update_addr(db, address_id, address, fault)
          IN  IF AddressValid(address)
              THEN req' = Done("update_addr", args, out) /\ db' = out.db
              ELSE req' = Reject422("update_addr", args) /\ db' = db
    /\ UNCHANGED <<hav, session, closes>>

DeleteAddr ==
    /\ req.phase = "open"
    /\ \E address_id \in Ids, fault \in BOOLEAN :
          LET out == delete_addr(db, address_id, fault)
          IN  /\ req' = Done("delete_addr", [id |-> address_id, fault |-> fault], out)
              /\ db' = out.db
    /\ UNCHANGED <<hav, session, closes>>

GetAddressesWithinDistance ==
    /\ req.phase = "open"
    /\ \E center \in Points, distance_km \in RadiusVals, fault \in BOOLEAN :
          LET args == [lat |-> center[1], lon |-> center[2],
                       distance_km |-> distance_km, fault |-> fault]
              out == get_addresses_within_distance(db, center[1], center[2],
                                                   distance_km, fault)
          IN  req' = Done("get_addresses_within_distance", args, out) /\ db' = out.db
    /\ UNCHANGED <<hav, session, closes>>

\* main.py lines 304-319: no Depends(get_db), no session
HealthCheck ==
    /\ req.phase \in {"idle", "finished"}
    /\ req' = Finished("health_check", 200)
    /\ session' = "none"
    /\ closes' = 0
    /\ UNCHANGED <<hav, db>>

Route ==
    \/ CreateAddr
    \/ ReadAddrs
    \/ ReadAddr
    \/ UpdateAddr
    \/ DeleteAddr
    \/ GetAddressesWithinDistance

Next == GetDbEnter \/ Route \/ GetDbExit \/ HealthCheck

Spec == Init /\ [][Next]_vars

\* models.py line 15, main.py line 35: a fresh address_book.db, where
\* create_all makes the table, empty; every row then comes through the routes
ApiInit ==
    /\ hav = HavIdle
    /\ db = <<>>
    /\ req = ReqIdle
    /\ session = "none"
    /\ closes = 0

ApiSpec == ApiInit /\ [][Next]_vars

\* FastAPI calls the route once the dependency has yielded and always finishes
\* the generator afterwards; nothing forces a next request to arrive
FairSpec == ApiSpec /\ WF_vars(Route) /\ WF_vars(GetDbExit)

\* ------------------------------------------- haversine_distance on its own
HavInit ==
    /\ hav \in {HavCall(lat1, lon1, lat2, lon2) :
                   lat1 \in LatVals, lon1 \in LonVals, lat2 \in LatVals, lon2 \in LonVals}
    /\ db = <<>>
    /\ req = ReqIdle
    /\ session = "none"
    /\ closes = 0

HavSpec == HavInit /\ [][HavNext]_vars

\* ================================================================== claims
LatInDomain(lat) == -90 <= lat /\ lat <= 90
LonInDomain(lon) == -180 <= lon /\ lon <= 180
RowInDomain(r) == LatInDomain(r.latitude) /\ LonInDomain(r.longitude)

SearchDone ==
    req.phase = "done" /\ req.endpoint = "get_addresses_within_distance"

CenterInDomain == LatInDomain(req.args.lat) /\ LonInDomain(req.args.lon)

\* a search whose center and radius pass the checks and whose query succeeds
SearchRan ==
    SearchDone /\ CenterInDomain /\ req.args.distance_km > 0 /\ ~req.args.fault

\* haversine_distance from the center of the request returns a value <= km
ReturnsWithin(r, km) ==
    LET h == haversine_distance(req.args.lat, req.args.lon, r.latitude, r.longitude)
    IN  h.raised = None /\ h.distance[1] <= km

\* C1: with a valid center and a radius > 0, the search returns exactly the
\* fetched rows for which haversine_distance returns a value <= distance_km,
\* a value equal to the radius included, in the order of the fetched collection.
C1_ExactlyWithinRadius ==
    SearchRan =>
        /\ req.out.status = 200
        /\ req.out.all = db
        /\ req.out.body =
              SelectSeq(req.out.all, LAMBDA r : ReturnsWithin(r, req.args.distance_km))

\* a search that kept a row at exactly the radius and left a farther row out
C1_Witness ==
    /\ SearchRan
    /\ req.args.distance_km = BoundaryRadius
    /\ Len(req.out.all) = 2
    /\ Len(req.out.body) = 1
    /\ haversine_distance(req.args.lat, req.args.lon, req.out.body[1].latitude,
                          req.out.body[1].longitude).distance = Some(BoundaryRadius)

\* C2: with a valid center and radius, a stored row with out-of-domain
\* coordinates is skipped and left out, haversine_distance is still called for
\* every row, the call succeeds, and the result is the one the search gives on
\* the collection without the out-of-domain rows.
C2_BadCandidateSkipped ==
    SearchRan =>
        /\ req.out.status = 200
        /\ req.out.calls = [i \in DOMAIN req.out.all |-> req.out.all[i].id]
        /\ \A i \in DOMAIN req.out.all :
              ~RowInDomain(req.out.all[i]) =>
                  /\ req.out.all[i].id \in Image(req.out.skipped)
                  /\ req.out.all[i] \notin Image(req.out.body)
        /\ req.out.body =
              get_addresses_within_distance(
                  SelectSeq(req.out.all, RowInDomain), req.args.lat, req.args.lon,
                  req.args.distance_km, FALSE).body

\* an out-of-domain row first, then a row within the radius, which is returned
C2_Witness ==
    /\ SearchRan
    /\ Len(req.out.all) = 2
    /\ ~RowInDomain(req.out.all[1])
    /\ req.out.skipped = <<req.out.all[1].id>>
    /\ req.out.body = <<req.out.all[2]>>

\* what the caller sees of a search
Seen(out) == <<out.status, out.detail>>

\* C3: a search with distance_km <= 0 fails with the radius error, and its
\* response differs from the response to an out-of-domain center and from the
\* response to a failure of the query.
C3_InvalidRadiusTold ==
    (SearchDone /\ CenterInDomain /\ req.args.distance_km <= 0) =>
        /\ req.out.raised = RadiusError
        /\ req.out.status # 200
        /\ Seen(req.out) #
              Seen(get_addresses_within_distance(db, 91, req.args.lon, 10 * Scale, FALSE))
        /\ Seen(req.out) #
              Seen(get_addresses_within_distance(db, req.args.lat, req.args.lon,
                                                 10 * Scale, TRUE))

\* C4: a search whose center is out of domain fails with the latitude or the
\* longitude error, without fetching the collection, without a call of
\* haversine_distance and without a result, whatever the radius and the rows.
C4_BadCenterFailsFast ==
    (SearchDone /\ ~CenterInDomain) =>
        /\ req.out.raised \in {CenterLatitudeError, CenterLongitudeError}
        /\ req.out.status # 200
        /\ ~req.out.fetched
        /\ req.out.all = <<>>
        /\ req.out.calls = <<>>
        /\ req.out.body = <<>>

\* a center with longitude 181, a positive radius, rows in the table
C4_Witness ==
    /\ SearchDone
    /\ LatInDomain(req.args.lat) /\ ~LonInDomain(req.args.lon)
    /\ req.args.distance_km > 0 /\ ~req.args.fault
    /\ Len(db) = 2
    /\ req.out.raised = CenterLongitudeError
    /\ ~req.out.fetched

HavArgsInDomain ==
    /\ LatInDomain(hav.lat1) /\ LatInDomain(hav.lat2)
    /\ LonInDomain(hav.lon1) /\ LonInDomain(hav.lon2)

\* C5: with a latitude or a longitude out of domain, haversine_distance raises
\* the ValueError of its range checks and never reaches the formula: delta,
\* a, c and distance stay unassigned.
C5_OutOfDomainRaises ==
    (hav.pc # "idle" /\ ~HavArgsInDomain) =>
        /\ hav.pc \in {"check", "raised"}
        /\ hav.pc = "raised" => hav.raised \in {LatitudeError, LongitudeError}
        /\ hav.a = NoValue /\ hav.c = NoValue /\ hav.distance = NoValue
        /\ haversine_distance(hav.lat1, hav.lon1, hav.lat2, hav.lon2).distance = NoValue

\* the call has raised for a second longitude of 181, all else in domain
C5_Witness ==
    /\ hav.pc = "raised"
    /\ LatInDomain(hav.lat1) /\ LatInDomain(hav.lat2) /\ LonInDomain(hav.lon1)
    /\ hav.lon2 = 181
    /\ hav.raised = LongitudeError

\* C6, on collections whose rows are all in domain: the search returns every
\* row when the radius exceeds the half-circumference, and no row when no row
\* is within the radius.
C6_AllOrNone ==
    (SearchRan /\ \A i \in DOMAIN req.out.all : RowInDomain(req.out.all[i])) =>
        /\ req.args.distance_km > HalfCircumference => req.out.body = req.out.all
        /\ (\A i \in DOMAIN req.out.all :
               ~ReturnsWithin(req.out.all[i], req.args.distance_km))
              => req.out.body = <<>>

SearchStep ==
    /\ req.phase = "open"
    /\ req'.phase = "done"
    /\ req'.endpoint = "get_addresses_within_distance"

\* C7: a search, whether it returns or fails, leaves the table as it was: the
\* same rows with the same id, name, latitude and longitude.
C7_SearchKeepsStore == [][SearchStep => db' = db]_vars

\* a search has skipped a row and the table still holds its two rows
C7_Witness ==
    /\ SearchRan
    /\ Len(req.out.skipped) = 1
    /\ Len(db) = 2
    /\ req.out.all = db

ById ==
    req.phase = "done" /\ req.endpoint \in {"read_addr", "update_addr", "delete_addr"}

\* C8: read, update and delete answer 404 for an id that is not in the table,
\* and 500 only when the database operation failed.
C8_NotFoundIs404 ==
    (ById /\ req.out.status # 422) =>
        /\ (req.out.raised # None /\ ~req.args.fault /\ req.args.id \notin RowIds(db))
              => req.out.status = 404
        /\ req.out.status = 500 => req.args.fault

\* an open session is eventually closed
C9_SessionLive == (session = "open") ~> (session = "closed")

\* the session is open while the route runs and closed, by one close(), once
\* the request has finished
C9_SessionSafe ==
    /\ closes <= 1
    /\ req.phase \in {"open", "done"} => (session = "open" /\ closes = 0)
    /\ (req.phase = "finished" /\ req.endpoint # "health_check")
          => (session = "closed" /\ closes = 1)
    /\ req.phase = "idle" => session = "none"

\* C9: a request that took a session through get_db has it open while the
\* route runs and closed exactly once, by one call of close(), when the
\* request has finished, whatever the route and the status; and an open
\* session is eventually closed.
C9_SessionReleased == []C9_SessionSafe /\ C9_SessionLive

\* a request that ended in a 500 has finished with its session closed once
C9_Witness ==
    /\ req.phase = "finished"
    /\ req.endpoint = "delete_addr"
    /\ req.status = 500
    /\ session = "closed"
    /\ closes = 1

HavTolerance == Scale \div 10^4

\* C10: for a point P in domain, haversine_distance(P, P) returns, and
\* returns 0 within 1e-4 km.
C10_SamePointZero ==
    (hav.pc # "idle" /\ HavArgsInDomain /\ hav.lat1 = hav.lat2 /\ hav.lon1 = hav.lon2) =>
        /\ hav.pc # "raised"
        /\ hav.pc = "returned" => Abs(hav.distance[1]) <= HavTolerance
        /\ LET h == haversine_distance(hav.lat1, hav.lon1, hav.lat2, hav.lon2)
           IN  h.raised = None /\ Abs(h.distance[1]) <= HavTolerance

\* the call has returned 0 for P = (12, 180)
C10_Witness ==
    /\ hav.pc = "returned"
    /\ hav.lat1 = 12 /\ hav.lat2 = 12 /\ hav.lon1 = 180 /\ hav.lon2 = 180
    /\ hav.distance = Some(0)

\* every row of the table satisfies the constraints of schemas.Addressbase
StoredRowsValid ==
    \A i \in DOMAIN db :
        /\ LatInDomain(db[i].latitude)
        /\ LonInDomain(db[i].longitude)
        /\ Len(db[i].name) <= 10

\* C11: starting from an empty table, after any sequence of create, update
\* and delete requests every row has its latitude in [-90, 90], its longitude
\* in [-180, 180] and a name of at most 10 characters, and therefore a search
\* never takes the per-candidate failure branch: no row is skipped.
C11_ApiRowsNeverSkipped ==
    /\ StoredRowsValid
    /\ SearchDone => req.out.skipped = <<>>

====
